---- MODULE Spec2Model ----
(***************************************************************************)
(* fuse-mt: InodeTranslator, the adapter between the inode-addressed FUSE  *)
(* callbacks and a path-addressed PathFilesystem (src/fs/                  *)
(* inode_translator.rs).  The transport invokes one callback at a time and *)
(* each runs to completion, so each callback is one action; Return is the  *)
(* transport taking back control once the callback has replied.            *)
(*                                                                         *)
(* A path is the sequence of its components below the root; std::path      *)
(* compares paths component-wise and drops "." components that are not     *)
(* leading, so "/a/." and "/a" are the same path value.                    *)
(***************************************************************************)
EXTENDS Integers, Sequences, FiniteSets, TLC

VARIABLES
    inodes,     \* InodeTranslator.inodes: the InodeTable
    pre,        \* the InodeTable as it was when the last callback started
    req,        \* the last callback and its arguments
    calls,      \* the invocations of self.target made by the last callback
    replies,    \* the terminal replies the last callback sent on its reply object
    added       \* the ReplyDirectory::add calls of the last callback

vars == <<inodes, pre, req, calls, replies, added>>

----------------------------------------------------------------------------
\* Bounds of the model.

MaxInodes == 3      \* no callback is taken that would grow the table past this
MaxEntries == 2     \* longest entry list a strategy readdir yields

\* Program constants.

RootIno == 1
EINVAL == 22
EIO == 5
ENOSYS == 38

----------------------------------------------------------------------------
\* Values.

None == <<>>
Some(x) == <<x>>
Unwrap(o) == o[1]

Root == <<>>

\* Child names a callback or a directory entry carries: plain components,
\* the two dot names, and one nested relative name.
Names == { <<"a">>, <<"b">>, <<".">>, <<"..">>, <<"a", "b">> }

Dot == <<".">>
DotDot == <<"..">>

Errnos == {2, EIO, EINVAL, ENOSYS}

Inos == 1..(MaxInodes + 1)
\* Values of the parameters a callback forwards (fh, flags, offset).
Params == {0, 1}

Kinds == {"Directory", "RegularFile"}

\* FileAttr: the inode field and one field standing for the rest.
FileAttrs == [ino : {0, 3}, kind : Kinds]

\* DirectoryEntry values a strategy yields.
DirectoryEntry ==
    { [name |-> Dot, kind |-> "Directory"],
      [name |-> DotDot, kind |-> "Directory"],
      [name |-> <<"a">>, kind |-> "Directory"],
      [name |-> <<"b">>, kind |-> "RegularFile"],
      [name |-> <<"a", "b">>, kind |-> "RegularFile"] }

\* The sequences over S of length at most n.
SeqsUpTo(S, n) == UNION { [1..k -> S] : k \in 0..n }

Ok(v) == [ok |-> TRUE, val |-> v]
Err(e) == [ok |-> FALSE, err |-> e]
ErrResults == { Err(e) : e \in Errnos }

\* Result types of the PathFilesystem trait.
ResultEmpty == { Ok("unit") } \cup ErrResults
ResultGetattr == { Ok([ttl |-> t, attr |-> a]) : t \in {1}, a \in FileAttrs } \cup ErrResults
ResultLookup ==
    { Ok([ttl |-> t, attr |-> a, generation |-> g]) :
        t \in {0, 1}, a \in [ino : {0, 3}, kind : {"Directory"}], g \in {0, 1} }
    \cup ErrResults
ResultOpen == { Ok([fh |-> f, flags |-> 0]) : f \in {0, 1} } \cup ErrResults
ResultReaddir == { Ok(es) : es \in SeqsUpTo(DirectoryEntry, MaxEntries) } \cup ErrResults
ResultData == { Ok(d) : d \in { <<>>, <<7>> } } \cup ErrResults
ResultWrite == { Ok(n) : n \in {0, 1} } \cup ErrResults

\* Replies.
ReplyError(e) == [kind |-> "error", code |-> e]
ReplyAttr(ttl, attr) == [kind |-> "attr", ttl |-> ttl, attr |-> attr]
ReplyEntry(ttl, attr, generation) ==
    [kind |-> "entry", ttl |-> ttl, attr |-> attr, generation |-> generation]
ReplyOpened(fh, flags) == [kind |-> "opened", fh |-> fh, flags |-> flags]
ReplyOk == [kind |-> "ok"]
ReplyData(data) == [kind |-> "data", data |-> data]
ReplyWritten(n) == [kind |-> "written", size |-> n]
Panic == [kind |-> "panic"]

----------------------------------------------------------------------------
\* std::path.

\* The components of an absolute path: "." components are normalised away.
Components(s) == SelectSeq(s, LAMBDA c : c # ".")

\* PathBuf::join of a relative name onto an absolute path.
Join(path, name) == Components(path \o name)

\* Path::parent: None for the root.
Parent(path) == IF path = Root THEN None ELSE Some(SubSeq(path, 1, Len(path) - 1))

----------------------------------------------------------------------------
\* InodeTable (super::inode_table): two views, table: inode -> path and
\* by_path: path -> inode.

Max(S) == CHOOSE x \in S : \A y \in S : y <= x

Extend(f, k, v) == [x \in DOMAIN f \cup {k} |-> IF x = k THEN v ELSE f[x]]

InodeTableNew == [table |-> [x \in {} |-> x], by_path |-> [x \in {} |-> x]]

NextInode(t) == IF DOMAIN t.table = {} THEN 1 ELSE Max(DOMAIN t.table) + 1

\* add: binds the next unused inode to path in both views.
Add(t, path) ==
    [table |-> Extend(t.table, NextInode(t), path),
     by_path |-> Extend(t.by_path, path, NextInode(t))]

GetPath(t, ino) == IF ino \in DOMAIN t.table THEN Some(t.table[ino]) ELSE None

GetInode(t, path) == IF path \in DOMAIN t.by_path THEN Some(t.by_path[path]) ELSE None

\* add_or_get: the inode it returns and the table it leaves.
AddOrGet(t, path) ==
    IF path \in DOMAIN t.by_path
    THEN [ino |-> t.by_path[path], inodes |-> t]
    ELSE [ino |-> NextInode(t), inodes |-> Add(t, path)]

Size(t) == Cardinality(DOMAIN t.table)

----------------------------------------------------------------------------
\* InodeTranslator::new

\* Mutant: the root is never added.
TranslatorNewNoRoot == InodeTableNew

TranslatorNew == Add(InodeTableNew, Root)

\* No callback is outstanding.
NoRequest == [op |-> "none", ino |-> 0, name |-> <<>>, params |-> 0]
Idle == req = NoRequest

Init ==
    /\ inodes = TranslatorNew
    /\ pre = TranslatorNew
    /\ req = NoRequest
    /\ calls = <<>>
    /\ replies = <<>>
    /\ added = <<>>

Request(op, ino, name, params) == [op |-> op, ino |-> ino, name |-> name, params |-> params]

Call(op, path, name, params, result) ==
    [op |-> op, path |-> path, name |-> name, params |-> params, result |-> result]

InitCall(result) == [op |-> "init", result |-> result]
DestroyCall == [op |-> "destroy"]
Returned(result) == [kind |-> "return", result |-> result]

\* The result of a capability the strategy does not override (the default
\* bodies of the PathFilesystem trait).
DefaultResult(op) == IF op = "init" THEN Err(0) ELSE Err(ENOSYS)

\* init: hands the strategy's result back to the caller.
FsInit ==
    /\ Idle
    /\ \E result \in ResultEmpty \cup { DefaultResult("init") } :
        /\ req' = Request("init", 0, <<>>, 0)
        /\ pre' = inodes
        /\ inodes' = inodes
        /\ added' = <<>>
        /\ calls' = << InitCall(result) >>
        /\ replies' = << Returned(result) >>

\* Mutant: destroy resets the table to the root entry.
FsDestroyClear ==
    /\ Idle
    /\ req' = Request("destroy", 0, <<>>, 0)
    /\ pre' = inodes
    /\ inodes' = TranslatorNew
    /\ added' = <<>>
    /\ calls' = << DestroyCall >>
    /\ replies' = <<>>

\* destroy: nothing is returned.
FsDestroy ==
    /\ Idle
    /\ req' = Request("destroy", 0, <<>>, 0)
    /\ pre' = inodes
    /\ inodes' = inodes
    /\ added' = <<>>
    /\ calls' = << DestroyCall >>
    /\ replies' = <<>>

\* Mutant: an unresolved inode is reported as an I/O error.
UnresolvedAsEio == ReplyError(EIO)

\* The reply of a callback whose inode does not resolve.
Unresolved == ReplyError(EINVAL)

\* Mutant: a failed strategy call is made a second time.
DelegateRetry(op, ino, params, result, reply) ==
    /\ req' = Request(op, ino, <<>>, params)
    /\ pre' = inodes
    /\ inodes' = inodes
    /\ added' = <<>>
    /\ IF GetPath(inodes, ino) # None
       THEN /\ calls' = IF result.ok
                        THEN << Call(op, Unwrap(GetPath(inodes, ino)), <<>>, params, result) >>
                        ELSE << Call(op, Unwrap(GetPath(inodes, ino)), <<>>, params, result),
                                Call(op, Unwrap(GetPath(inodes, ino)), <<>>, params, result) >>
            /\ replies' = << reply >>
       ELSE /\ calls' = <<>>
            /\ replies' = << Unresolved >>

\* The shape shared by the callbacks that add nothing to the table: resolve
\* the inode, delegate to the strategy, send the reply matched to its result.
Delegate(op, ino, params, result, reply) ==
    /\ req' = Request(op, ino, <<>>, params)
    /\ pre' = inodes
    /\ inodes' = inodes
    /\ added' = <<>>
    /\ IF GetPath(inodes, ino) # None
       THEN /\ calls' = << Call(op, Unwrap(GetPath(inodes, ino)), <<>>, params, result) >>
            /\ replies' = << reply >>
       ELSE /\ calls' = <<>>
            /\ replies' = << Unresolved >>

\* The match on the strategy's result in each of these callbacks.
GetattrReply(result) ==
    IF result.ok THEN ReplyAttr(result.val.ttl, result.val.attr) ELSE ReplyError(result.err)

Getattr ==
    /\ Idle
    /\ \E ino \in Inos, result \in ResultGetattr :
        Delegate("getattr", ino, 0, result, GetattrReply(result))

\* Mutant: lookup binds the child with add, whether or not it is bound.
LookupOkAdd(t, parent_path, name, val) ==
    LET path == Join(parent_path, name)
    IN  [inodes |-> Add(t, path),
         replies |-> << ReplyEntry(val.ttl, [val.attr EXCEPT !.ino = NextInode(t)],
                                   val.generation) >>]

\* Mutant: the strategy's attributes are passed on with the inode it put there.
LookupOkRawAttr(t, parent_path, name, val) ==
    [inodes |-> AddOrGet(t, Join(parent_path, name)).inodes,
     replies |-> << ReplyEntry(val.ttl, val.attr, val.generation) >>]

\* Mutant: the child name is bound without joining it onto the parent path.
LookupOkUnjoined(t, parent_path, name, val) ==
    LET got == AddOrGet(t, Join(Root, name))
    IN  [inodes |-> got.inodes,
         replies |-> << ReplyEntry(val.ttl, [val.attr EXCEPT !.ino = got.ino],
                                   val.generation) >>]

\* lookup, strategy succeeded: the child path gets its inode, which is
\* written into the attributes of the entry reply.
LookupOk(t, parent_path, name, val) ==
    LET path == Join(parent_path, name)
        got == AddOrGet(t, path)
    IN  [inodes |-> got.inodes,
         replies |-> << ReplyEntry(val.ttl, [val.attr EXCEPT !.ino = got.ino],
                                   val.generation) >>]

\* Mutant: the child is bound before the strategy's result is looked at.
LookupErrAlloc(t, parent_path, name, e) ==
    [inodes |-> AddOrGet(t, Join(parent_path, name)).inodes,
     replies |-> << ReplyError(e) >>]

\* Mutant: the Err arm sends no reply.
LookupErrSilent(t, parent_path, name, e) ==
    [inodes |-> t, replies |-> <<>>]

\* lookup, strategy failed.
LookupErr(t, parent_path, name, e) ==
    [inodes |-> t, replies |-> << ReplyError(e) >>]

Lookup ==
    /\ Idle
    /\ \E parent \in Inos, name \in Names, result \in ResultLookup :
        /\ req' = Request("lookup", parent, name, 0)
        /\ pre' = inodes
        /\ added' = <<>>
        /\ IF GetPath(inodes, parent) # None
           THEN LET parent_path == Unwrap(GetPath(inodes, parent))
                    out == IF result.ok
                           THEN LookupOk(inodes, parent_path, name, result.val)
                           ELSE LookupErr(inodes, parent_path, name, result.err)
                IN  /\ calls' = << Call("lookup", parent_path, name, 0, result) >>
                    /\ inodes' = out.inodes
                    /\ replies' = out.replies
           ELSE /\ calls' = <<>>
                /\ inodes' = inodes
                /\ replies' = << Unresolved >>
        /\ Size(inodes') <= MaxInodes

\* Mutant: every failure of the strategy is reported as an I/O error.
EmptyReplyEio(result) ==
    IF result.ok THEN ReplyOk ELSE ReplyError(EIO)

OpenedReply(result) ==
    IF result.ok THEN ReplyOpened(result.val.fh, result.val.flags) ELSE ReplyError(result.err)
EmptyReply(result) ==
    IF result.ok THEN ReplyOk ELSE ReplyError(result.err)
DataReply(result) ==
    IF result.ok THEN ReplyData(result.val) ELSE ReplyError(result.err)
WrittenReply(result) ==
    IF result.ok THEN ReplyWritten(result.val) ELSE ReplyError(result.err)

Opendir ==
    /\ Idle
    /\ \E ino \in Inos, flags \in Params, result \in ResultOpen :
        Delegate("opendir", ino, flags, result, OpenedReply(result))

Releasedir ==
    /\ Idle
    /\ \E ino \in Inos, fh \in Params, result \in ResultEmpty :
        Delegate("releasedir", ino, fh, result, EmptyReply(result))

Open ==
    /\ Idle
    /\ \E ino \in Inos, flags \in Params, result \in ResultOpen :
        Delegate("open", ino, flags, result, OpenedReply(result))

Release ==
    /\ Idle
    /\ \E ino \in Inos, fh \in Params, result \in ResultEmpty :
        Delegate("release", ino, fh, result, EmptyReply(result))

Read ==
    /\ Idle
    /\ \E ino \in Inos, offset \in Params, result \in ResultData :
        Delegate("read", ino, offset, result, DataReply(result))

Write ==
    /\ Idle
    /\ \E ino \in Inos, offset \in Params, result \in ResultWrite :
        Delegate("write", ino, offset, result, WrittenReply(result))

Flush ==
    /\ Idle
    /\ \E ino \in Inos, fh \in Params, result \in ResultEmpty :
        Delegate("flush", ino, fh, result, EmptyReply(result))

----------------------------------------------------------------------------
\* readdir

\* Mutant: an unbound parent is replaced by the root inode.
ParentInodeFallback(t, ino, path) ==
    IF ino = RootIno THEN Some(ino)
    ELSE IF GetInode(t, Unwrap(Parent(path))) = None THEN Some(RootIno)
    ELSE GetInode(t, Unwrap(Parent(path)))

\* Mutant: the parent is looked up as the directory's path joined with "..".
ParentInodeDotDot(t, ino, path) ==
    IF ino = RootIno THEN Some(ino) ELSE GetInode(t, Join(path, DotDot))

\* The inode reported for "..": the directory itself for the root, else the
\* inode of the parent path; None when the parent path has no inode.
ParentInode(t, ino, path) ==
    IF ino = RootIno THEN Some(ino) ELSE GetInode(t, Unwrap(Parent(path)))

\* Mutant: a child entry is bound with add, whether or not it is bound.
ResolveEntryAdd(t, ino, path, parent_inode, entry) ==
    IF entry.name = Dot THEN [ino |-> ino, inodes |-> t]
    ELSE IF entry.name = DotDot THEN [ino |-> parent_inode, inodes |-> t]
    ELSE [ino |-> NextInode(t), inodes |-> Add(t, Join(path, entry.name))]

\* Mutant: ".." is resolved like any other name.
ResolveEntryNoDotDot(t, ino, path, parent_inode, entry) ==
    IF entry.name = Dot THEN [ino |-> ino, inodes |-> t]
    ELSE AddOrGet(t, Join(path, entry.name))

\* Mutant: the entry name is resolved without joining it onto the directory.
ResolveEntryUnjoined(t, ino, path, parent_inode, entry) ==
    IF entry.name = Dot THEN [ino |-> ino, inodes |-> t]
    ELSE IF entry.name = DotDot THEN [ino |-> parent_inode, inodes |-> t]
    ELSE AddOrGet(t, Join(Root, entry.name))

\* The inode reported for one entry, and the table after resolving it.
ResolveEntry(t, ino, path, parent_inode, entry) ==
    IF entry.name = Dot THEN [ino |-> ino, inodes |-> t]
    ELSE IF entry.name = DotDot THEN [ino |-> parent_inode, inodes |-> t]
    ELSE AddOrGet(t, Join(path, entry.name))

\* Mutant: positions are counted from 1.
AddCallFromOne(entry_inode, index, entry, buffer_full) ==
    [ino |-> entry_inode, offset |-> index + 1, kind |-> entry.kind, name |-> entry.name,
     full |-> buffer_full]

\* One ReplyDirectory::add call: its arguments and the flag it returned.
AddCall(entry_inode, index, entry, buffer_full) ==
    [ino |-> entry_inode, offset |-> index, kind |-> entry.kind, name |-> entry.name,
     full |-> buffer_full]

StartIndex == 0

\* Mutant: a full buffer does not end the loop.
RECURSIVE ReaddirLoopNoBreak(_, _, _, _, _, _, _, _)
ReaddirLoopNoBreak(t, ino, path, parent_inode, entries, fullAt, index, acc) ==
    IF entries = <<>> THEN [inodes |-> t, added |-> acc]
    ELSE LET entry == Head(entries)
             got == ResolveEntry(t, ino, path, parent_inode, entry)
             buffer_full == (Len(acc) + 1 = fullAt)
             acc2 == Append(acc, AddCall(got.ino, index, entry, buffer_full))
         IN  ReaddirLoopNoBreak(got.inodes, ino, path, parent_inode, Tail(entries),
                                fullAt, index + 1, acc2)

\* Mutant: the entry on which the buffer reports full is not bound.
RECURSIVE ReaddirLoopFullFirst(_, _, _, _, _, _, _, _)
ReaddirLoopFullFirst(t, ino, path, parent_inode, entries, fullAt, index, acc) ==
    IF entries = <<>> THEN [inodes |-> t, added |-> acc]
    ELSE LET entry == Head(entries)
             got == ResolveEntry(t, ino, path, parent_inode, entry)
             buffer_full == (Len(acc) + 1 = fullAt)
             acc2 == Append(acc, AddCall(got.ino, index, entry, buffer_full))
         IN  IF buffer_full THEN [inodes |-> t, added |-> acc2]
             ELSE ReaddirLoopFullFirst(got.inodes, ino, path, parent_inode, Tail(entries),
                                       fullAt, index + 1, acc2)

\* The loop over the entries.  fullAt is the number of the add call that
\* reports a full buffer (0: none does).
RECURSIVE ReaddirLoop(_, _, _, _, _, _, _, _)
ReaddirLoop(t, ino, path, parent_inode, entries, fullAt, index, acc) ==
    IF entries = <<>> THEN [inodes |-> t, added |-> acc]
    ELSE LET entry == Head(entries)
             got == ResolveEntry(t, ino, path, parent_inode, entry)
             entry_inode == got.ino
             t2 == got.inodes
             buffer_full == (Len(acc) + 1 = fullAt)
             acc2 == Append(acc, AddCall(entry_inode, index, entry, buffer_full))
         IN  IF buffer_full THEN [inodes |-> t2, added |-> acc2]
             ELSE ReaddirLoop(t2, ino, path, parent_inode, Tail(entries), fullAt,
                              index + 1, acc2)

Readdir ==
    /\ Idle
    /\ \E ino \in Inos, offset \in Params, result \in ResultReaddir, fullAt \in 0..MaxEntries :
        /\ result.ok => fullAt <= Len(result.val)
        /\ ~result.ok => fullAt = 0
        /\ req' = Request("readdir", ino, <<>>, offset)
        /\ pre' = inodes
        /\ IF GetPath(inodes, ino) # None
           THEN LET path == Unwrap(GetPath(inodes, ino))
                IN  /\ calls' = << Call("readdir", path, <<>>, offset, result) >>
                    /\ IF result.ok
                       THEN IF ino # RootIno /\ Parent(path) = None
                            THEN /\ replies' = << Panic >>
                                 /\ inodes' = inodes
                                 /\ added' = <<>>
                            ELSE IF ParentInode(inodes, ino, path) = None
                            THEN /\ replies' = << ReplyError(EIO) >>
                                 /\ inodes' = inodes
                                 /\ added' = <<>>
                            ELSE LET out == ReaddirLoop(inodes, ino, path,
                                                Unwrap(ParentInode(inodes, ino, path)),
                                                result.val, fullAt, StartIndex, <<>>)
                                 IN  /\ inodes' = out.inodes
                                     /\ added' = out.added
                                     /\ replies' = << ReplyOk >>
                       ELSE /\ replies' = << ReplyError(result.err) >>
                            /\ inodes' = inodes
                            /\ added' = <<>>
           ELSE /\ calls' = <<>>
                /\ inodes' = inodes
                /\ added' = <<>>
                /\ replies' = << Unresolved >>
        /\ Size(inodes') <= MaxInodes

----------------------------------------------------------------------------

\* The callback has replied and returns to the transport.
Return ==
    /\ ~Idle
    /\ req' = NoRequest
    /\ pre' = inodes
    /\ inodes' = inodes
    /\ calls' = <<>>
    /\ replies' = <<>>
    /\ added' = <<>>

Next ==
    \/ FsInit
    \/ FsDestroy
    \/ Getattr
    \/ Lookup
    \/ Opendir
    \/ Releasedir
    \/ Readdir
    \/ Open
    \/ Release
    \/ Read
    \/ Write
    \/ Flush
    \/ Return

Spec == Init /\ [][Next]_vars

\* The callbacks when every child name a lookup is given and every name a
\* strategy readdir yields is a single path component.
SingleComponentNames ==
    /\ req.op = "lookup" => Len(req.name) = 1
    /\ (req.op = "readdir" /\ calls # <<>> /\ calls[1].result.ok) =>
        \A i \in 1..Len(calls[1].result.val) : Len(calls[1].result.val[i].name) = 1

NextSingle ==
    \/ FsInit
    \/ FsDestroy
    \/ Getattr
    \/ Lookup /\ SingleComponentNames'
    \/ Opendir
    \/ Releasedir
    \/ Readdir /\ SingleComponentNames'
    \/ Open
    \/ Release
    \/ Read
    \/ Write
    \/ Flush
    \/ Return

SpecSingle == Init /\ [][NextSingle]_vars

----------------------------------------------------------------------------
\* Properties.

HandleOps ==
    {"getattr", "lookup", "opendir", "releasedir", "readdir", "open", "release",
     "read", "write", "flush"}

\* The strategy was invoked by the last callback, and succeeded / failed.
StrategyOk == calls # <<>> /\ calls[1].result.ok
StrategyErr == calls # <<>> /\ ~calls[1].result.ok

\* The last callback was a readdir that ended with the success reply.
ReaddirOk == req.op = "readdir" /\ replies = << ReplyOk >>

IsDotName(name) == name = Dot \/ name = DotDot

\* The path of the resolved directory (or parent) of the last callback.
ReqPath == Unwrap(GetPath(pre, req.ino))

\* C1: a handle-addressed callback given a handle with no entry in the path
\* table replies EINVAL once, never invokes the strategy and leaves the
\* table unchanged.
C1_UnresolvedHandle ==
    (req.op \in HandleOps /\ GetPath(pre, req.ino) = None)
        => /\ replies = << ReplyError(EINVAL) >>
           /\ calls = <<>>
           /\ added = <<>>
           /\ inodes = pre

C1_Witness ==
    /\ req.op = "readdir"
    /\ GetPath(pre, req.ino) = None
    /\ Size(pre) > 1
    /\ replies = << ReplyError(EINVAL) >>

\* No step removes or rebinds a binding: get_path of a bound handle,
\* get_inode and add_or_get of a bound path give after the step what they
\* gave before it.
C2_StepStable ==
    /\ \A h \in DOMAIN inodes.table : GetPath(inodes', h) = GetPath(inodes, h)
    /\ \A p \in DOMAIN inodes.by_path :
        /\ GetInode(inodes', p) = GetInode(inodes, p)
        /\ AddOrGet(inodes', p) = [ino |-> inodes.by_path[p], inodes |-> inodes']

\* A successful lookup or readdir of an already bound path reports the handle
\* it had and adds no entry for it.
C2_Repeated ==
    /\ (req.op = "lookup" /\ StrategyOk /\ Join(ReqPath, req.name) \in DOMAIN pre.by_path)
        => /\ replies[1].attr.ino = pre.by_path[Join(ReqPath, req.name)]
           /\ inodes = pre
    /\ ReaddirOk =>
        \A i \in 1..Len(added) :
            (~IsDotName(added[i].name) /\ Join(ReqPath, added[i].name) \in DOMAIN pre.by_path)
                => added[i].ino = pre.by_path[Join(ReqPath, added[i].name)]
    /\ Size(inodes) = Cardinality(DOMAIN inodes.by_path)

\* C2: handle stability over the life of the mount: every step keeps every
\* binding (C2_StepStable), and in every state a repeated lookup or readdir
\* has reported the handle already bound and added no entry (C2_Repeated).
C2_HandleStability == [][C2_StepStable]_vars /\ []C2_Repeated

C2_Witness ==
    /\ req.op = "lookup"
    /\ StrategyOk
    /\ Join(ReqPath, req.name) \in DOMAIN pre.by_path
    /\ Join(ReqPath, req.name) # Root
    /\ replies[1].attr.ino = pre.by_path[Join(ReqPath, req.name)]

\* C3: handle 1 is bound to the root path and the root path to no other
\* handle, in every state.
C3_RootBinding ==
    /\ GetPath(inodes, 1) = Some(Root)
    /\ GetInode(inodes, Root) = Some(1)
    /\ \A h \in DOMAIN inodes.table : inodes.table[h] = Root => h = 1

C3_Witness ==
    /\ req.op = "lookup"
    /\ req.ino = RootIno
    /\ req.name = Dot
    /\ StrategyOk
    /\ Size(inodes) > 1
    /\ GetPath(inodes, 1) = Some(Root)

\* C4: the two views of the table are inverse to each other in every state:
\* no binding is held by one view alone, no two paths share a handle, no
\* path has two handles.
C4_Bijection ==
    /\ \A h \in DOMAIN inodes.table : GetInode(inodes, inodes.table[h]) = Some(h)
    /\ \A p \in DOMAIN inodes.by_path : GetPath(inodes, inodes.by_path[p]) = Some(p)

C4_Witness ==
    /\ ReaddirOk
    /\ Size(inodes) = Size(pre) + 2
    /\ \A h \in DOMAIN inodes.table : GetInode(inodes, inodes.table[h]) = Some(h)

\* C5: a lookup whose parent resolves to P and whose strategy lookup(P, name)
\* succeeds replies with the strategy's validity and generation and with the
\* attributes' handle set to add_or_get(P joined with name); that handle
\* resolves to P joined with name afterwards.
C5_LookupSuccess ==
    (req.op = "lookup" /\ StrategyOk)
        => /\ calls[1].path = ReqPath
           /\ calls[1].name = req.name
           /\ Len(replies) = 1
           /\ replies[1].kind = "entry"
           /\ replies[1].ttl = calls[1].result.val.ttl
           /\ replies[1].generation = calls[1].result.val.generation
           /\ replies[1].attr.ino = AddOrGet(pre, Join(ReqPath, req.name)).ino
           /\ GetPath(inodes, replies[1].attr.ino) = Some(Join(ReqPath, req.name))

C5_Witness ==
    /\ req.op = "lookup"
    /\ StrategyOk
    /\ req.ino # RootIno
    /\ Join(ReqPath, req.name) \notin DOMAIN pre.by_path
    /\ replies[1].attr.ino # calls[1].result.val.attr.ino
    /\ GetPath(inodes, replies[1].attr.ino) = Some(Join(ReqPath, req.name))

\* C6: a lookup whose parent resolves and whose strategy lookup fails with
\* code e replies exactly e and leaves the table as it was.
C6_LookupFailure ==
    (req.op = "lookup" /\ StrategyErr)
        => /\ replies = << ReplyError(calls[1].result.err) >>
           /\ inodes = pre

C6_Witness ==
    /\ req.op = "lookup"
    /\ StrategyErr
    /\ Join(ReqPath, req.name) \notin DOMAIN pre.by_path
    /\ replies = << ReplyError(ENOSYS) >>
    /\ inodes = pre

\* C7: in a successful readdir on handle d with path P every "." entry is
\* reported with d and every ".." entry with get_inode(parent of P), or with
\* 1 when d is the root; the dot entries allocate nothing (the table grows
\* by the paths of the other entries only), and on the root a succeeding
\* strategy readdir never ends in a resolution failure.
C7_DotEntries ==
    /\ ReaddirOk =>
        /\ \A i \in 1..Len(added) :
            /\ added[i].name = Dot => added[i].ino = req.ino
            /\ added[i].name = DotDot =>
                added[i].ino = IF req.ino = RootIno THEN 1
                               ELSE Unwrap(GetInode(pre, Unwrap(Parent(ReqPath))))
        /\ DOMAIN inodes.by_path =
            DOMAIN pre.by_path \cup
                { Join(ReqPath, added[i].name) :
                    i \in { j \in 1..Len(added) : ~IsDotName(added[j].name) } }
    /\ (req.op = "readdir" /\ req.ino = RootIno /\ StrategyOk) => ReaddirOk

C7_Witness ==
    /\ ReaddirOk
    /\ req.ino # RootIno
    /\ Len(added) = 2
    /\ added[1].name = Dot /\ added[1].ino = req.ino
    /\ added[2].name = DotDot /\ added[2].ino = Unwrap(GetInode(pre, Unwrap(Parent(ReqPath))))
    /\ added[2].ino # req.ino
    /\ inodes = pre

C9_Ordering ==
    (req.op = "readdir" /\ StrategyOk) =>
        /\ Len(added) <= Len(calls[1].result.val)
        /\ \A i \in 1..Len(added) :
            /\ added[i].offset = i - 1
            /\ added[i].name = calls[1].result.val[i].name
            /\ added[i].kind = calls[1].result.val[i].kind

C9_Witness ==
    /\ ReaddirOk
    /\ req.params = 1
    /\ Len(added) = 2
    /\ added[1].name # added[2].name
    /\ added[1].offset = 0
    /\ added[2].offset = 1

\* C10: once an append reports a full buffer no later entry of the strategy's
\* sequence is appended, and the call still ends with the success reply; with
\* no such report every entry is appended.
C10_BufferFull ==
    /\ \A i \in 1..Len(added) :
        added[i].full => (i = Len(added) /\ replies = << ReplyOk >>)
    /\ (ReaddirOk /\ \A i \in 1..Len(added) : ~added[i].full)
        => Len(added) = Len(calls[1].result.val)

C10_Witness ==
    /\ ReaddirOk
    /\ Len(added) = 1
    /\ added[1].full
    /\ Len(calls[1].result.val) = 2

\* The last callback was a readdir on a resolvable non-root directory whose
\* parent path had no handle.
BrokenParent ==
    /\ req.op = "readdir"
    /\ GetPath(pre, req.ino) # None
    /\ req.ino # RootIno
    /\ GetInode(pre, Unwrap(Parent(ReqPath))) = None

BrokenParentOutcome ==
    /\ replies = << ReplyError(EIO) >>
    /\ added = <<>>
    /\ inodes = pre

\* C11, as stated: a readdir on a resolvable non-root directory whose parent
\* path has no handle replies EIO, appends nothing, allocates nothing and
\* sends no success reply.
C11_BrokenParentAlways == BrokenParent => BrokenParentOutcome

\* C11, amended: the same, provided the strategy's readdir succeeded (the
\* parent is resolved only after the strategy has answered; a failing
\* strategy's code is what is replied).
C11_BrokenParent ==
    /\ (BrokenParent /\ StrategyOk) => BrokenParentOutcome
    /\ (BrokenParent /\ StrategyErr) =>
        /\ replies = << ReplyError(calls[1].result.err) >>
        /\ added = <<>>
        /\ inodes = pre

C11_Witness ==
    /\ BrokenParent
    /\ StrategyOk
    /\ Len(calls[1].result.val) = 2
    /\ calls[1].result.val[1].name = DotDot
    /\ ~IsDotName(calls[1].result.val[2].name)
    /\ replies = << ReplyError(EIO) >>
    /\ added = <<>>

\* C12: when the handle resolves and the strategy fails with code e the
\* reply is the error e (init hands the strategy's result back as it is);
\* an error reply with any other origin is EINVAL for an unresolved handle
\* or EIO for an unresolved parent in readdir.
C12_VerbatimFailure ==
    /\ (req.op \in HandleOps /\ StrategyErr)
        => replies = << ReplyError(calls[1].result.err) >>
    /\ req.op = "init" => replies = << Returned(calls[1].result) >>
    /\ \A i \in 1..Len(replies) :
        (replies[i].kind = "error" /\ ~StrategyErr) =>
            \/ calls = <<>> /\ GetPath(pre, req.ino) = None /\ replies[i].code = EINVAL
            \/ BrokenParent /\ StrategyOk /\ replies[i].code = EIO

C12_Witness ==
    /\ req.op = "flush"
    /\ req.ino # RootIno
    /\ StrategyErr
    /\ calls[1].result.err = ENOSYS
    /\ replies = << ReplyError(ENOSYS) >>

\* The reply that passes a successful strategy result on as it is.
PassedOn(op, val) ==
    CASE op \in {"opendir", "open"} -> ReplyOpened(val.fh, val.flags)
      [] op \in {"releasedir", "release", "flush"} -> ReplyOk
      [] op = "read" -> ReplyData(val)
      [] op = "write" -> ReplyWritten(val)

\* C13: a getattr on a resolvable handle h whose strategy call succeeds
\* replies with the strategy's attributes carrying h in the handle field,
\* whatever the strategy put there; open, close, read, write and flush pass
\* the strategy's result on unchanged.
C13_GetattrSubstitution ==
    /\ (req.op = "getattr" /\ StrategyOk) =>
        replies = << ReplyAttr(calls[1].result.val.ttl,
                               [calls[1].result.val.attr EXCEPT !.ino = req.ino]) >>
    /\ (req.op \in {"opendir", "open", "releasedir", "release", "flush", "read", "write"}
            /\ StrategyOk)
        => replies = << PassedOn(req.op, calls[1].result.val) >>

\* The capabilities that return a result.
ResultOps == HandleOps \cup {"init"}

\* C14: a capability left at its default yields the 'not implemented'
\* failure, for every capability that returns a result, and the dispatcher
\* surfaces that code unchanged.
C14_StrategyDefaults ==
    (calls # <<>> /\ calls[1].op \in ResultOps
        /\ calls[1].result = DefaultResult(calls[1].op))
        => /\ calls[1].result = Err(ENOSYS)
           /\ replies = << IF req.op = "init" THEN Returned(Err(ENOSYS))
                                               ELSE ReplyError(ENOSYS) >>

\* C15: init, destroy, getattr, opendir, releasedir, open, release, read,
\* write and flush leave the table as it was; only a lookup or a readdir
\* whose strategy call succeeded changes it, and every binding the table had
\* before a callback it has after it.
C15_Frame ==
    /\ inodes # pre => (req.op \in {"lookup", "readdir"} /\ StrategyOk)
    /\ \A h \in DOMAIN pre.table :
        h \in DOMAIN inodes.table /\ inodes.table[h] = pre.table[h]
    /\ \A p \in DOMAIN pre.by_path :
        p \in DOMAIN inodes.by_path /\ inodes.by_path[p] = pre.by_path[p]

C15_Witness ==
    /\ ReaddirOk
    /\ req.ino # RootIno
    /\ Size(pre) = 2
    /\ Size(inodes) = 3
    /\ \A h \in DOMAIN pre.table : inodes.table[h] = pre.table[h]

\* C16: a callback invokes the strategy's operation of the same name exactly
\* once when its handle resolves and not at all when it does not, whether
\* the strategy succeeds or fails, and invokes no other strategy operation.
C16_NoRetry ==
    /\ req.op \in HandleOps =>
        IF GetPath(pre, req.ino) # None
        THEN Len(calls) = 1 /\ calls[1].op = req.op
        ELSE calls = <<>>
    /\ req.op \in {"init", "destroy"} => (Len(calls) = 1 /\ calls[1].op = req.op)

C16_Witness ==
    /\ req.op = "readdir"
    /\ StrategyErr
    /\ Len(calls) = 1
    /\ calls[1].op = "readdir"
    /\ replies = << ReplyError(calls[1].result.err) >>

\* The success reply of each handle-addressed callback.
SuccessKind(op) ==
    CASE op = "getattr" -> "attr"
      [] op = "lookup" -> "entry"
      [] op \in {"opendir", "open"} -> "opened"
      [] op \in {"releasedir", "release", "flush", "readdir"} -> "ok"
      [] op = "read" -> "data"
      [] op = "write" -> "written"

\* C17: every handle-addressed callback ends having sent exactly one
\* terminal reply, an error or its success reply; a readdir sends one
\* error reply and appends nothing, or appends entries and sends one success
\* reply.
C17_OneReply ==
    req.op \in HandleOps =>
        /\ Len(replies) = 1
        /\ replies[1].kind \in {"error", SuccessKind(req.op)}
        /\ (req.op # "readdir" \/ replies[1].kind = "error") => added = <<>>

C17_Witness ==
    /\ BrokenParent
    /\ StrategyOk
    /\ calls[1].result.val # <<>>
    /\ Len(replies) = 1
    /\ replies[1].kind = "error"
    /\ replies[1].code = EIO

\* Every bound path but the root has its parent path bound.
ParentClosed(t) ==
    \A p \in DOMAIN t.by_path : p # Root => Unwrap(Parent(p)) \in DOMAIN t.by_path

\* C18 (under SpecSingle: child names are single components): every bound
\* non-root path has its parent bound, so no readdir finds its parent
\* unresolved and the EIO branch is never taken.
C18_ParentClosure ==
    /\ ParentClosed(inodes)
    /\ ~BrokenParent
    /\ ~(req.op = "readdir" /\ StrategyOk /\ replies = << ReplyError(EIO) >>)

C18_Witness ==
    /\ ReaddirOk
    /\ Len(ReqPath) = 2
    /\ Len(added) = 1
    /\ added[1].name = DotDot
    /\ GetPath(inodes, added[1].ino) = Parent(ReqPath)

\* C19: when the append of the entry at position k reports a full buffer,
\* the table after the call holds the bindings it had before plus the
\* paths of the entries at positions 0..k that are not dot entries, the
\* entry at k included (it is bound before it is offered), and nothing for
\* the entries after k.
C19_TruncatedListing ==
    (ReaddirOk /\ added # <<>> /\ added[Len(added)].full) =>
        LET entries == calls[1].result.val
            upto == { j \in 1..Len(added) : ~IsDotName(entries[j].name) }
        IN  /\ DOMAIN inodes.by_path =
                DOMAIN pre.by_path \cup { Join(ReqPath, entries[j].name) : j \in upto }
            /\ \A j \in upto :
                GetPath(inodes, added[j].ino) = Some(Join(ReqPath, entries[j].name))
            /\ \A p \in DOMAIN pre.by_path : inodes.by_path[p] = pre.by_path[p]

C19_Witness ==
    /\ ReaddirOk
    /\ Len(added) = 1
    /\ added[1].full
    /\ Len(calls[1].result.val) = 2
    /\ ~IsDotName(calls[1].result.val[2].name)
    /\ Join(ReqPath, added[1].name) \notin DOMAIN pre.by_path
    /\ Join(ReqPath, added[1].name) \in DOMAIN inodes.by_path
    /\ Join(ReqPath, calls[1].result.val[2].name) \notin DOMAIN inodes.by_path

\* The names other than "." and "..".
PlainNames == { n \in Names : ~IsDotName(n) }

\* The handle a successful lookup(d, n) writes into its reply in table t,
\* and the handle a readdir on d reports for an entry named n in table t.
LookupHandle(t, d, n) ==
    LookupOk(t, t.table[d], n,
             [ttl |-> 0, attr |-> [ino |-> 0, kind |-> "Directory"], generation |-> 0]
            ).replies[1].attr.ino

ReaddirHandle(t, d, n) ==
    ResolveEntry(t, d, t.table[d], d, [name |-> n, kind |-> "Directory"]).ino

\* The handle the last callback reported for a plain name is the handle the
\* other operation gives for that name from here.
C20_Reported ==
    /\ ReaddirOk =>
        \A i \in 1..Len(added) :
            ~IsDotName(added[i].name) =>
                LookupHandle(inodes, req.ino, added[i].name) = added[i].ino
    /\ (req.op = "lookup" /\ StrategyOk /\ ~IsDotName(req.name)) =>
        ReaddirHandle(inodes, req.ino, req.name) = replies[1].attr.ino

\* No step changes the handle either operation gives for a bound child.
C20_Step ==
    \A d \in DOMAIN inodes.table, n \in PlainNames :
        Join(inodes.table[d], n) \in DOMAIN inodes.by_path =>
            /\ LookupHandle(inodes', d, n) = ReaddirHandle(inodes, d, n)
            /\ ReaddirHandle(inodes', d, n) = LookupHandle(inodes, d, n)

\* C20: for a resolvable directory d and a name n other than "." and ".."
\* the handle readdir on d reports for n and the handle a successful
\* lookup(d, n) writes are the same, whichever runs first and whatever runs
\* in between.
C20_LookupReaddirAgree == []C20_Reported /\ [][C20_Step]_vars

C20_Witness ==
    /\ req.op = "lookup"
    /\ StrategyOk
    /\ req.ino # RootIno
    /\ ~IsDotName(req.name)
    /\ Join(ReqPath, req.name) \in DOMAIN pre.by_path
    /\ ReaddirHandle(pre, req.ino, req.name) = replies[1].attr.ino

====
